---- MODULE Spec2Model ----
(***************************************************************************)
(* The Backup role of haret's Viewstamped Replication state machine        *)
(* (src/src/vr/states/backup.rs).  One message is handled per step: the     *)
(* handler consumes the Backup (its context and its primary) and returns    *)
(* the next role together with the envelopes it pushed on `output`.         *)
(*                                                                         *)
(* The CorrelationId is carried through every handler unchanged and is not  *)
(* modelled.  A Rust panic (an out-of-range index into the log) ends the    *)
(* handler with role "Panic" and the context as it stood at the panic.      *)
(***************************************************************************)
EXTENDS Integers, Sequences, FiniteSets, TLC

\* ---------------------------------------------------------------- bounds
MaxLog == 2          \* longest log a message may carry or a Prepare may grow
MaxNum == 2          \* largest op / commit_num a message may carry
MaxView == 1         \* views are 0..MaxView
MaxEpoch == 2        \* epochs are 1..MaxEpoch
MaxElapsed == 2      \* a Tick observes the clock up to this many units
                     \* after last_received_time
IdleTimeout == 1     \* ctx.idle_timeout, in clock units

\* ------------------------------------------------------------ identities
Self == "r2"
NamespaceMgr == "namespace_mgr"
InitialReplicas == <<"r1", "r2", "r3">>
ShrunkReplicas == <<"r1", "r3">>      \* a configuration without Self
Senders == {"r1", "r3"}

Epochs == 1..MaxEpoch
Views == 0..MaxView
Nums == 0..MaxNum

\* ClientOp: Request(op payload) | Reconfiguration(epoch, replicas)
Request(payload) ==
    [type |-> "Request", op |-> payload, epoch |-> 0, replicas |-> <<>>]

Reconfiguration(e, rs) ==
    [type |-> "Reconfiguration", op |-> "", epoch |-> e, replicas |-> rs]

ClientOps ==
    {Request("x")}
        \cup {Reconfiguration(e, InitialReplicas) : e \in Epochs}
        \cup {Reconfiguration(MaxEpoch, ShrunkReplicas)}

RECURSIVE LogsOfLen(_)
LogsOfLen(n) ==
    IF n = 0 THEN {<<>>}
    ELSE {Append(l, e) : l \in LogsOfLen(n - 1), e \in ClientOps}

Logs == UNION {LogsOfLen(n) : n \in 0..MaxLog}

VARIABLES
    ctx,       \* VrCtx: the replication context owned by the role
    primary,   \* Backup.primary
    role,      \* the VrState variant returned by the last handler
    received,  \* the last step set ctx.last_received_time = SteadyTime::now()
    msg,       \* the message handled by the last step
    pre,       \* [ctx, primary] as they stood before the last step
    output,    \* envelopes pushed on `output` by the last step
    backend,   \* operations passed to ctx.backend.call by the last step
    applied,   \* op numbers (i+1) whose log entry commit applied, last step
    transitioning  \* whether the last step evaluated enter_transitioning

vars == <<ctx, primary, role, received, msg, pre, output, backend, applied,
          transitioning>>

\* ------------------------------------------------- context (vr_ctx, external)

\* ctx.compute_primary(): the replica at index view mod |replicas|
compute_primary(c) ==
    c.replicas[(c.view % Len(c.replicas)) + 1]

Range(s) == {s[i] : i \in 1..Len(s)}

\* ctx.is_leaving(): this replica is not a member of the new configuration
is_leaving(c) == Self \notin Range(c.replicas)

\* ctx.is_primary()
is_primary(c) == compute_primary(c) = Self

\* ctx.update_for_new_epoch(op, replicas): adopt the new membership
update_for_new_epoch(c, opnum, rs) ==
    [c EXCEPT !.replicas = rs]

\* ctx.idle_timeout(): the time since last_received_time exceeds the timeout
idle_timeout(e) == e > IdleTimeout

Envelope(to, from, m) == [to |-> to, from |-> from, msg |-> m]

\* ctx.namespace_mgr_envelope(msg)
namespace_mgr_envelope(m) == Envelope(NamespaceMgr, Self, m)

NoMsg == [type |-> "None"]

\* -------------------------------------------------------------- results
\* What a handler returns: the next role, the context it owns, and what was
\* pushed on `output` / sent to the backend while it ran.
Result(c, p) ==
    [ctx |-> c, primary |-> p, role |-> "Backup", output |-> <<>>,
     backend |-> <<>>, applied |-> <<>>, transitioning |-> FALSE,
     touched |-> FALSE]

\* self.into(): remain a Backup
Into(r) == r

\* The handler accepted a primary's message: last_received_time = now()
Touch(r) == [r EXCEPT !.touched = TRUE]

Push(r, env) == [r EXCEPT !.output = Append(@, env)]

\* up_to_date!(self, from, msg, cid, output): the freshness filter of the
\* handlers of primary-originated messages; a message of another epoch or
\* view is ignored
up_to_date(c, m) == m.epoch = c.epoch /\ m.view = c.view

\* ------------------------------------------------------------- the role

\* Backup::prepare_ok_msg
prepare_ok_msg(c) ==
    [type |-> "PrepareOk", epoch |-> c.epoch, view |-> c.view, op |-> c.op,
     from |-> Self]

\* Backup::send_to_primary
send_to_primary(p, m) == Envelope(p, Self, m)

\* Backup::set_primary: recompute the primary, store it and push NewPrimary
set_primary(r) ==
    LET p == compute_primary(r.ctx) IN
    Push([r EXCEPT !.primary = p],
         namespace_mgr_envelope([type |-> "NewPrimary", primary |-> p]))

\* send_prepare_ok storing the operation as the whole log
send_prepare_ok_replaces_log(r, clientop) ==
    LET c1 == [r.ctx EXCEPT !.op = @ + 1, !.log = <<clientop>>]
        r1 == Touch([r EXCEPT !.ctx = c1])
    IN  Push(r1, send_to_primary(r1.primary, prepare_ok_msg(c1)))

\* Backup::send_prepare_ok: op += 1; log.push(msg); push PrepareOk
send_prepare_ok(r, clientop) ==
    LET c1 == [r.ctx EXCEPT !.op = @ + 1, !.log = Append(@, clientop)]
        r1 == Touch([r EXCEPT !.ctx = c1])
    IN  Push(r1, send_to_primary(r1.primary, prepare_ok_msg(c1)))

\* ctx.announce_reconfiguration(): tell the namespace manager
announce_reconfiguration(r) ==
    Push(r, namespace_mgr_envelope(
                [type |-> "Reconfiguration", epoch |-> r.ctx.epoch,
                 replicas |-> r.ctx.replicas]))

\* Reconfiguration::broadcast_epoch_started: EpochStarted, addressed to the
\* replicas that the new configuration replaces
broadcast_epoch_started(r) ==
    Push(r, Envelope("replaced", Self,
                     [type |-> "EpochStarted", epoch |-> r.ctx.epoch]))

\* Backup::enter_transitioning.  The branch for the new primary builds
\* Primary::from(self) but does not return it: control falls through to the
\* final self.into().
enter_transitioning(r) ==
    LET r0 == [r EXCEPT !.transitioning = TRUE] IN
    IF is_leaving(r0.ctx)
    THEN [r0 EXCEPT !.role = "Leaving"]
    ELSE LET r1 == broadcast_epoch_started(r0)
             r2 == IF is_primary(r1.ctx)
                   THEN [r1 EXCEPT !.ctx.reconfiguration_in_progress = FALSE]
                   ELSE r1
         IN  Into(r2)

\* commit with the early return removed: a reconfiguration never leads to
\* role-determination
RECURSIVE commit_from_no_transition(_, _, _)
commit_from_no_transition(r, i, new_commit_num) ==
    IF i >= new_commit_num
    THEN Into([r EXCEPT !.ctx.commit_num = new_commit_num])
    ELSE IF i + 1 > Len(r.ctx.log)
    THEN [r EXCEPT !.role = "Panic"]
    ELSE LET e == r.ctx.log[i + 1] IN
         IF e.type = "Request"
         THEN commit_from_no_transition(
                  [r EXCEPT !.backend = Append(@, e.op),
                            !.applied = Append(@, i + 1)],
                  i + 1, new_commit_num)
         ELSE LET r1 == [r EXCEPT !.ctx.epoch = e.epoch,
                                  !.applied = Append(@, i + 1)]
                  r2 == [r1 EXCEPT
                            !.ctx = update_for_new_epoch(@, i + 1, e.replicas)]
                  r3 == set_primary(announce_reconfiguration(r2))
              IN  commit_from_no_transition(r3, i + 1, new_commit_num)

\* The body of the loop of Backup::commit for index i (op number i+1), then
\* the rest of the loop up to new_commit_num, then the code after the loop.
RECURSIVE commit_from(_, _, _)
commit_from(r, i, new_commit_num) ==
    IF i >= new_commit_num
    THEN Into([r EXCEPT !.ctx.commit_num = new_commit_num])
    ELSE IF i + 1 > Len(r.ctx.log)
    THEN [r EXCEPT !.role = "Panic"]          \* self.log[i]: index out of bounds
    ELSE LET e == r.ctx.log[i + 1] IN
         IF e.type = "Request"
         THEN commit_from([r EXCEPT !.backend = Append(@, e.op),
                                    !.applied = Append(@, i + 1)],
                          i + 1, new_commit_num)
         ELSE LET r1 == [r EXCEPT !.ctx.epoch = e.epoch,
                                  !.applied = Append(@, i + 1)]
                  r2 == [r1 EXCEPT
                            !.ctx = update_for_new_epoch(@, i + 1, e.replicas)]
                  r3 == set_primary(announce_reconfiguration(r2))
              IN  IF new_commit_num = Len(r3.ctx.log)
                  THEN enter_transitioning(
                           [r3 EXCEPT !.ctx.commit_num = new_commit_num])
                  ELSE commit_from(r3, i + 1, new_commit_num)

\* Backup::commit
commit(r, new_commit_num) == commit_from(r, r.ctx.commit_num, new_commit_num)

\* StateTransfer::start_same_view
start_same_view(r) == [r EXCEPT !.role = "StateTransfer"]

\* handle_prepare taking an op at or below the local op as the next in order
handle_prepare_reappends(r, m) ==
    IF ~up_to_date(r.ctx, m) THEN Into(r)
    ELSE LET r1 == Touch(r) IN
         IF m.op <= r1.ctx.op + 1
         THEN commit(send_prepare_ok(r1, m.msg), m.commit_num)
         ELSE start_same_view(r1)

\* handle_prepare taking every op beyond the local op as the next in order
handle_prepare_accepts_gap(r, m) ==
    IF ~up_to_date(r.ctx, m) THEN Into(r)
    ELSE LET r1 == Touch(r) IN
         IF m.op >= r1.ctx.op + 1
         THEN commit(send_prepare_ok(r1, m.msg), m.commit_num)
         ELSE Into(r1)

\* Backup::handle_prepare
handle_prepare(r, m) ==
    IF ~up_to_date(r.ctx, m) THEN Into(r)
    ELSE LET r1 == Touch(r) IN
         IF m.op = r1.ctx.op + 1
         THEN commit(send_prepare_ok(r1, m.msg), m.commit_num)
         ELSE IF m.op > r1.ctx.op + 1
         THEN start_same_view(r1)
         ELSE Into(r1)

\* Backup::handle_commit
handle_commit(r, m) ==
    IF ~up_to_date(r.ctx, m) THEN Into(r)
    ELSE LET r1 == Touch(r) IN
         IF m.commit_num = r1.ctx.commit_num
         THEN Into(r1)
         ELSE IF m.commit_num = r1.ctx.op
         THEN commit(r1, m.commit_num)
         ELSE start_same_view(r1)

\* StartViewChange::start_view_change (external): the view-change role
start_view_change(r, m) == [r EXCEPT !.role = "StartViewChange"]

\* DoViewChange::start_do_view_change (external)
start_do_view_change(r, m) == [r EXCEPT !.role = "DoViewChange"]

\* Backup::handle_start_view_change
handle_start_view_change(r, m) ==
    IF m.epoch # r.ctx.epoch THEN Into(r)
    ELSE IF m.view <= r.ctx.view THEN Into(r)
    ELSE start_view_change(r, m)

\* handle_do_view_change ignoring only views strictly below the local view
handle_do_view_change_equal_view(r, m) ==
    IF m.epoch # r.ctx.epoch THEN Into(r)
    ELSE IF m.view < r.ctx.view THEN Into(r)
    ELSE start_do_view_change(r, m)

\* Backup::handle_do_view_change
handle_do_view_change(r, m) ==
    IF m.epoch # r.ctx.epoch THEN Into(r)
    ELSE IF m.view <= r.ctx.view THEN Into(r)
    ELSE start_do_view_change(r, m)

\* become_backup without the call of set_primary
become_backup_keeps_primary(r, v, opnum, newlog, new_commit_num) ==
    LET c1 == [r.ctx EXCEPT !.view = v, !.op = opnum, !.log = newlog]
        c2 == [c1 EXCEPT !.last_normal_view = c1.view]
        r1 == Touch([r EXCEPT !.ctx = c2])
    IN  commit(r1, new_commit_num)

\* Backup::become_backup
become_backup(r, v, opnum, newlog, new_commit_num) ==
    LET c1 == [r.ctx EXCEPT !.view = v, !.op = opnum, !.log = newlog]
        c2 == [c1 EXCEPT !.last_normal_view = c1.view]
        r1 == Touch([r EXCEPT !.ctx = c2])
    IN  commit(set_primary(r1), new_commit_num)

\* handle_start_view adopting the epoch of the message
handle_start_view_adopts_epoch(r, m) ==
    IF m.epoch < r.ctx.epoch THEN Into(r)
    ELSE IF m.epoch = r.ctx.epoch /\ m.view <= r.ctx.view THEN Into(r)
    ELSE become_backup([r EXCEPT !.ctx.epoch = m.epoch],
                       m.view, m.op, m.log, m.commit_num)

\* Backup::handle_start_view
handle_start_view(r, m) ==
    IF m.epoch < r.ctx.epoch THEN Into(r)
    ELSE IF m.epoch = r.ctx.epoch /\ m.view <= r.ctx.view THEN Into(r)
    ELSE become_backup(r, m.view, m.op, m.log, m.commit_num)

\* StartViewChange::broadcast_start_view_change: one envelope per peer
broadcast_start_view_change(r) ==
    LET peers == SelectSeq(r.ctx.replicas, LAMBDA x : x # Self) IN
    [r EXCEPT !.output = @ \o
        [i \in 1..Len(peers) |->
            Envelope(peers[i], Self,
                     [type |-> "StartViewChange", epoch |-> r.ctx.epoch,
                      view |-> r.ctx.view])]]

\* handle_tick without the increment of the view
handle_tick_same_view(r, e) ==
    IF idle_timeout(e)
    THEN LET r1 == Touch(r)
             new_state == [r1 EXCEPT !.role = "StartViewChange"]
         IN  broadcast_start_view_change(new_state)
    ELSE Into(r)

\* Backup::handle_tick; e is the time since last_received_time
handle_tick(r, e) ==
    IF idle_timeout(e)
    THEN LET r1 == Touch([r EXCEPT !.ctx.view = @ + 1])
             new_state == [r1 EXCEPT !.role = "StartViewChange"]
         IN  broadcast_start_view_change(new_state)
    ELSE Into(r)

\* StateTransfer::send_new_state (external): the reply to a GetState
send_new_state(c, opnum, from) ==
    Envelope(from, Self,
             [type |-> "NewState", epoch |-> c.epoch, view |-> c.view,
              op |-> c.op, commit_num |-> c.commit_num, from_op |-> opnum])

\* Backup::handle_get_state
handle_get_state(r, m) ==
    IF ~up_to_date(r.ctx, m) THEN Into(r)
    ELSE IF m.epoch # r.ctx.epoch \/ m.view # r.ctx.view THEN Into(r)
    ELSE Into(Push(r, send_new_state(r.ctx, m.op, m.from)))

\* Backup::handle_recovery; Recovery::send_response is external
handle_recovery(r, m) ==
    Into(Push(r, Envelope(m.from, Self,
                          [type |-> "RecoveryResponse", epoch |-> r.ctx.epoch,
                           view |-> r.ctx.view, nonce |-> m.nonce])))

\* Backup::handle_start_epoch; Reconfiguration::send_epoch_started is external
handle_start_epoch(r, m) ==
    Into(Push(r, Envelope(m.from, Self,
                          [type |-> "EpochStarted", epoch |-> r.ctx.epoch])))

\* ------------------------------------------------------------- messages
PrepareMsgs ==
    [type : {"Prepare"}, epoch : Epochs, view : Views, op : Nums,
     commit_num : Nums, msg : ClientOps]

CommitMsgs ==
    [type : {"Commit"}, epoch : Epochs, view : Views, commit_num : Nums]

StartViewChangeMsgs == [type : {"StartViewChange"}, epoch : Epochs, view : Views]

DoViewChangeMsgs == [type : {"DoViewChange"}, epoch : Epochs, view : Views]

StartViewMsgs ==
    [type : {"StartView"}, epoch : Epochs, view : Views, op : Nums,
     log : Logs, commit_num : Nums]

GetStateMsgs ==
    [type : {"GetState"}, epoch : Epochs, view : Views, op : Nums,
     from : Senders]

RecoveryMsgs == [type : {"Recovery"}, nonce : {"n"}, from : Senders]

StartEpochMsgs == [type : {"StartEpoch"}, from : Senders]

\* ---------------------------------------------------------------- steps
\* Backup::new: the primary is computed from the context
InitCtx ==
    [epoch |-> 1, view |-> 0, op |-> 0, commit_num |-> 0, log |-> <<>>,
     last_normal_view |-> 0, replicas |-> InitialReplicas,
     reconfiguration_in_progress |-> FALSE]

Init ==
    /\ ctx \in {[InitCtx EXCEPT !.reconfiguration_in_progress = b] :
                    b \in BOOLEAN}
    /\ primary = compute_primary(ctx)
    /\ role = "Backup"
    /\ received = FALSE
    /\ msg = NoMsg
    /\ pre = [ctx |-> ctx, primary |-> primary]
    /\ output = <<>>
    /\ backend = <<>>
    /\ applied = <<>>
    /\ transitioning = FALSE

\* Transition::handle: the role handles message m and returns result r
Handled(m, r) ==
    /\ msg' = m
    /\ pre' = [ctx |-> ctx, primary |-> primary]
    /\ ctx' = r.ctx
    /\ primary' = r.primary
    /\ role' = r.role
    /\ output' = r.output
    /\ backend' = r.backend
    /\ applied' = r.applied
    /\ transitioning' = r.transitioning
    /\ received' = r.touched

Current == Result(ctx, primary)

\* The role is a Backup and the envelopes of the previous step were sent
Ready == role = "Backup" /\ msg = NoMsg

Prepare ==
    /\ Ready
    /\ \E m \in PrepareMsgs :
        /\ Len(ctx.log) < MaxLog \/ m.op # ctx.op + 1
        /\ Handled(m, handle_prepare(Current, m))

Commit ==
    /\ Ready
    /\ \E m \in CommitMsgs : Handled(m, handle_commit(Current, m))

StartViewChange ==
    /\ Ready
    /\ \E m \in StartViewChangeMsgs :
        Handled(m, handle_start_view_change(Current, m))

DoViewChange ==
    /\ Ready
    /\ \E m \in DoViewChangeMsgs :
        Handled(m, handle_do_view_change(Current, m))

StartView ==
    /\ Ready
    /\ \E m \in StartViewMsgs : Handled(m, handle_start_view(Current, m))

\* e: the time since last_received_time that idle_timeout() observes
Tick ==
    /\ Ready
    /\ \E e \in 0..MaxElapsed :
        Handled([type |-> "Tick", elapsed |-> e], handle_tick(Current, e))

GetState ==
    /\ Ready
    /\ \E m \in GetStateMsgs : Handled(m, handle_get_state(Current, m))

Recovery ==
    /\ Ready
    /\ \E m \in RecoveryMsgs : Handled(m, handle_recovery(Current, m))

StartEpoch ==
    /\ Ready
    /\ \E m \in StartEpochMsgs : Handled(m, handle_start_epoch(Current, m))

\* Transition::handle, `_ => self.into()`: any other message kind
Other ==
    /\ Ready
    /\ Handled([type |-> "ClientRequest"], Into(Current))

\* The caller of Transition::handle sends the envelopes of `output`; the
\* next message is handled by the role that was returned.
Send ==
    /\ msg # NoMsg
    /\ msg' = NoMsg
    /\ pre' = [ctx |-> ctx, primary |-> primary]
    /\ output' = <<>>
    /\ backend' = <<>>
    /\ applied' = <<>>
    /\ transitioning' = FALSE
    /\ received' = FALSE
    /\ UNCHANGED <<ctx, primary, role>>

Next ==
    \/ Prepare
    \/ Commit
    \/ StartViewChange
    \/ DoViewChange
    \/ StartView
    \/ Tick
    \/ GetState
    \/ Recovery
    \/ StartEpoch
    \/ Other
    \/ Send

Spec == Init /\ [][Next]_vars

\* ================================================================ claims

\* The last step handled a message of kind t
Was(t) == msg # NoMsg /\ msg.type = t

\* The message of the last step was of the epoch and view the role was in
Fresh == msg.epoch = pre.ctx.epoch /\ msg.view = pre.ctx.view

Outputs(t) == SelectSeq(output, LAMBDA env : env.msg.type = t)

\* A StartView that handle_start_view does not ignore
StartViewAccepted ==
    /\ Was("StartView")
    /\ msg.epoch >= pre.ctx.epoch
    /\ ~(msg.epoch = pre.ctx.epoch /\ msg.view <= pre.ctx.view)

InOrderPrepare == Was("Prepare") /\ Fresh /\ msg.op = pre.ctx.op + 1

CommitAtOp ==
    /\ Was("Commit") /\ Fresh
    /\ msg.commit_num # pre.ctx.commit_num
    /\ msg.commit_num = pre.ctx.op

\* The last step called Backup::commit(msg.commit_num)
CommitCalled == InOrderPrepare \/ CommitAtOp \/ StartViewAccepted

\* (C1) After every transition the context satisfies commit_num <= op and
\* op <= length(log).
C1_CounterOrder ==
    role # "Panic" => ctx.commit_num <= ctx.op /\ ctx.op <= Len(ctx.log)

\* (C2) A Prepare of the current epoch and view whose op is greater than the
\* local op + 1 makes the next role StateTransfer, leaves op, commit_num and
\* the log unchanged and emits no PrepareOk.
C2_PrepareGap ==
    (Was("Prepare") /\ Fresh /\ msg.op > pre.ctx.op + 1) =>
        /\ role = "StateTransfer"
        /\ ctx.op = pre.ctx.op
        /\ ctx.commit_num = pre.ctx.commit_num
        /\ ctx.log = pre.ctx.log
        /\ Outputs("PrepareOk") = <<>>
        /\ backend = <<>>

C2_Witness ==
    /\ Was("Prepare") /\ Fresh /\ msg.op > pre.ctx.op + 1
    /\ pre.ctx.op = 0 /\ msg.op = 2
    /\ role = "StateTransfer"

\* (C3) A Prepare of the current epoch and view with op = N+1 appends the
\* carried operation as log entry N+1, sets op to N+1, emits exactly one
\* PrepareOk{epoch, view, op = N+1, from = self} to the current primary, and
\* commit_num ends equal to the Prepare's commit_num.
C3_InOrderPrepare ==
    InOrderPrepare =>
        /\ Len(ctx.log) >= msg.op
        /\ ctx.log[msg.op] = msg.msg
        /\ ctx.op = pre.ctx.op + 1
        /\ Outputs("PrepareOk") =
              <<Envelope(pre.primary, Self,
                         [type |-> "PrepareOk", epoch |-> pre.ctx.epoch,
                          view |-> pre.ctx.view, op |-> pre.ctx.op + 1,
                          from |-> Self])>>
        /\ ctx.commit_num = msg.commit_num

\* (C4) commit(x) with x <= commit_num is a no-op: commit_num, the log and
\* the other context fields stay as they were when commit was called, the
\* Backend is not called and the role stays Backup.
C4_CommitNoOp ==
    (CommitCalled /\ msg.commit_num <= pre.ctx.commit_num) =>
        /\ ctx.commit_num = pre.ctx.commit_num
        /\ ctx.epoch = pre.ctx.epoch
        /\ ctx.replicas = pre.ctx.replicas
        /\ ctx.reconfiguration_in_progress
              = pre.ctx.reconfiguration_in_progress
        /\ ctx.log = (IF Was("Prepare") THEN Append(pre.ctx.log, msg.msg)
                      ELSE IF Was("StartView") THEN msg.log
                      ELSE pre.ctx.log)
        /\ backend = <<>>
        /\ applied = <<>>
        /\ role = "Backup"

\* The op numbers c+1 .. n in ascending order
RECURSIVE Ascending(_, _)
Ascending(c, n) == IF c >= n THEN <<>> ELSE <<c + 1>> \o Ascending(c + 1, n)

\* (C5) When commit advances commit_num from c to n, every log entry with
\* op number in (c, n] is applied once, in ascending order, none skipped;
\* the Backend is called once per Request entry of that range.
C5_CommitAppliesRange ==
    (CommitCalled /\ role # "Panic" /\ ctx.commit_num > pre.ctx.commit_num) =>
        /\ applied = Ascending(pre.ctx.commit_num, ctx.commit_num)
        /\ Len(backend) =
              Cardinality({i \in (pre.ctx.commit_num + 1)..ctx.commit_num :
                              ctx.log[i].type = "Request"})

\* The commit target of the last step is a Reconfiguration entry that is the
\* last entry of the log, and it is beyond the commit_num held before
ReconfigurationAtTarget ==
    /\ CommitCalled
    /\ pre.ctx.commit_num < msg.commit_num
    /\ msg.commit_num = Len(ctx.log)
    /\ ctx.log[msg.commit_num].type = "Reconfiguration"

\* (C6) Whenever commit reaches a Reconfiguration entry that is the last log
\* entry and the commit target, enter_transitioning is evaluated before
\* commit returns.
C6_TransitionEvaluated ==
    ReconfigurationAtTarget =>
        /\ transitioning
        /\ role \in {"Leaving", "Primary", "Backup"}
        /\ ctx.commit_num = msg.commit_num

C6_Witness ==
    /\ ReconfigurationAtTarget
    /\ Was("Commit")
    /\ applied = <<msg.commit_num>>
    /\ transitioning

\* (C7) Role-determination takes exactly one outcome: Leaving if the replica
\* is being removed; otherwise Primary, with reconfiguration_in_progress
\* cleared, if it is the computed primary; otherwise Backup.
C7_RoleDetermination ==
    transitioning =>
        IF is_leaving(ctx) THEN role = "Leaving"
        ELSE IF is_primary(ctx)
        THEN role = "Primary" /\ ~ctx.reconfiguration_in_progress
        ELSE role = "Backup"

\* (C8) A StartViewChange or DoViewChange of another epoch, or of a view not
\* above the local view, leaves role, context and primary unchanged and
\* produces no output; any other is delegated to the view-change role.
C8_ViewChangeFilter ==
    (Was("StartViewChange") \/ Was("DoViewChange")) =>
        IF msg.epoch # pre.ctx.epoch \/ msg.view <= pre.ctx.view
        THEN /\ role = "Backup"
             /\ ctx = pre.ctx
             /\ primary = pre.primary
             /\ output = <<>>
             /\ backend = <<>>
             /\ ~received
        ELSE role = msg.type

C8_Witness ==
    /\ Was("DoViewChange")
    /\ msg.epoch = pre.ctx.epoch
    /\ msg.view = pre.ctx.view
    /\ pre.ctx.view > 0
    /\ role = "Backup"

\* What a Tick does when the idle timeout has fired
TickFired ==
    /\ ctx.view = pre.ctx.view + 1
    /\ received
    /\ role = "StartViewChange"
    /\ Len(Outputs("StartViewChange")) >= 1
    /\ \A i \in 1..Len(output) :
          output[i].msg = [type |-> "StartViewChange", epoch |-> ctx.epoch,
                           view |-> ctx.view]

TickIgnored ==
    /\ role = "Backup"
    /\ ctx = pre.ctx
    /\ output = <<>>
    /\ ~received

C10_StartViewAllOrNothing ==
    Was("StartView") =>
        IF StartViewAccepted
        THEN /\ ctx.view = msg.view
             /\ ctx.op = msg.op
             /\ ctx.log = msg.log
             /\ ctx.commit_num = msg.commit_num
             /\ ctx.last_normal_view = msg.view
        ELSE /\ ctx = pre.ctx
             /\ primary = pre.primary
             /\ role = "Backup"
             /\ output = <<>>

\* (C11) Over any sequence of messages the epoch never decreases, and the
\* view never decreases while the epoch is unchanged.
C11_EpochViewMonotone ==
    role # "Panic" =>
        /\ ctx.epoch >= pre.ctx.epoch
        /\ ctx.epoch = pre.ctx.epoch => ctx.view >= pre.ctx.view

\* (C12, as stated) After every transition the stored primary equals the
\* primary computed from the current epoch, view and membership.
C12_PrimaryNeverStale ==
    role # "Panic" => primary = compute_primary(ctx)

\* (C12, amended) After every transition that returns the Backup role the
\* stored primary equals the primary computed from the current epoch, view
\* and membership.
C12_BackupPrimaryCurrent ==
    role = "Backup" => primary = compute_primary(ctx)

C12_Witness ==
    /\ StartViewAccepted
    /\ role = "Backup"
    /\ ctx.view # pre.ctx.view
    /\ primary # pre.primary
    /\ primary = compute_primary(ctx)

\* (C13) No input aborts the role: every handler returns a next role, and
\* commit never reads a log position that does not exist.
C13_NoAbort == role # "Panic"

\* (C14) While the role is Backup the log is append-only: a handler other
\* than an accepted StartView leaves the existing entries unchanged, and the
\* only growth is the one entry appended by an in-order Prepare.
C14_LogAppendOnly ==
    (msg # NoMsg /\ ~StartViewAccepted) =>
        ctx.log = (IF InOrderPrepare THEN Append(pre.ctx.log, msg.msg)
                   ELSE pre.ctx.log)

C14_Witness ==
    /\ InOrderPrepare
    /\ Len(pre.ctx.log) = 1
    /\ ctx.log = Append(pre.ctx.log, msg.msg)
    /\ ctx.log[1] # ctx.log[2]
    /\ role = "Backup"

\* (C15) enter_transitioning is entered only when the Reconfiguration entry
\* being committed is the last entry of the log at the commit target; a
\* Reconfiguration followed by further entries inside the commit range does
\* not trigger it.
C15_TransitionOnlyAtLastEntry ==
    transitioning =>
        /\ applied[Len(applied)] = Len(ctx.log)
        /\ applied[Len(applied)] = msg.commit_num

\* (C16) An accepted StartView emits a NewPrimary notification if the
\* recomputed primary differs from the primary held before, and none if it
\* is the same.
C16_NewPrimaryOnlyOnChange ==
    (StartViewAccepted /\ role # "Panic") =>
        IF primary # pre.primary
        THEN Outputs("NewPrimary") # <<>>
        ELSE Outputs("NewPrimary") = <<>>

\* (C17) For a Commit of the current epoch and view: an equal commit_num is
\* a no-op without output; else a commit_num equal to the local op runs
\* commit and commit_num becomes the local op; any other goes to
\* StateTransfer with op, commit_num and log unchanged.
C17_CommitCases ==
    (Was("Commit") /\ Fresh) =>
        IF msg.commit_num = pre.ctx.commit_num
        THEN /\ role = "Backup"
             /\ ctx.op = pre.ctx.op
             /\ ctx.commit_num = pre.ctx.commit_num
             /\ ctx.log = pre.ctx.log
             /\ output = <<>>
        ELSE IF msg.commit_num = pre.ctx.op
        THEN /\ ctx.commit_num = pre.ctx.op
             /\ ctx.op = pre.ctx.op
             /\ ctx.log = pre.ctx.log
        ELSE /\ role = "StateTransfer"
             /\ ctx.op = pre.ctx.op
             /\ ctx.commit_num = pre.ctx.commit_num
             /\ ctx.log = pre.ctx.log

\* (C18) A Prepare of the current epoch and view whose op is at or below the
\* local op is ignored: the role stays Backup, op, commit_num and the log
\* are unchanged whatever commit_num it carries, nothing is appended again
\* and no PrepareOk is emitted.
C18_StalePrepareIgnored ==
    (Was("Prepare") /\ Fresh /\ msg.op <= pre.ctx.op) =>
        /\ role = "Backup"
        /\ ctx = pre.ctx
        /\ primary = pre.primary
        /\ output = <<>>
        /\ backend = <<>>
        /\ applied = <<>>

C18_Witness ==
    /\ Was("Prepare") /\ Fresh
    /\ msg.op = pre.ctx.op
    /\ msg.op >= 1
    /\ msg.commit_num > pre.ctx.commit_num
    /\ role = "Backup"
    /\ ctx.log = pre.ctx.log

\* The op numbers of the Reconfiguration entries commit applied, last step
AppliedReconfigurations ==
    SelectSeq(applied, LAMBDA i : ctx.log[i].type = "Reconfiguration")

\* (C19) The epoch changes only when commit applies a Reconfiguration log
\* entry: it is the epoch of the last such entry applied by the step, and
\* otherwise the epoch held before, also when a StartView of a higher epoch
\* is accepted.
C19_EpochOnlyByReconfiguration ==
    LET recs == AppliedReconfigurations IN
    ctx.epoch = (IF recs = <<>> THEN pre.ctx.epoch
                 ELSE ctx.log[recs[Len(recs)]].epoch)

C19_Witness ==
    /\ StartViewAccepted
    /\ msg.epoch > pre.ctx.epoch
    /\ applied = <<1>>
    /\ AppliedReconfigurations = <<>>
    /\ ctx.epoch = pre.ctx.epoch
    /\ role = "Backup"

\* (C20) commit_num never decreases and the op numbers applied by commit
\* form a strictly increasing sequence over the steps: each step applies
\* ascending op numbers above the commit_num held before.
C20_CommitNeverGoesBack ==
    role # "Panic" =>
        /\ ctx.commit_num >= pre.ctx.commit_num
        /\ \A i \in 1..Len(applied) : applied[i] > pre.ctx.commit_num
        /\ \A i \in 1..(Len(applied) - 1) : applied[i] < applied[i + 1]
====
